---- MODULE Spec2Model ----
(***************************************************************************)
(* rback (src/main.go): one run of the program.  The flags are parsed, the *)
(* five kinds of RBAC records are fetched with kubectl, the graph is       *)
(* assembled by genGraph and printed.                                      *)
(*                                                                         *)
(* Strings are TLA+ strings.  The dot graph (github.com/emicklei/dot) is   *)
(* the record g: subgraphs are named by their path from the root graph,    *)
(* a node by <<path of its subgraph, id>>, and the edges are a bag, as     *)
(* dot appends one edge per call of Edge.  Go's map iteration order is a   *)
(* nondeterministic choice of the order in which a collection is walked.   *)
(***************************************************************************)
EXTENDS Bags, FiniteSets, Integers, Sequences, TLC

VARIABLES
  config,        \* Rback.config, set by main from the flags
  cluster,       \* the records in the cluster that kubectl reads
  permissions,   \* Rback.permissions
  pc,            \* position of main
  nsIdx,         \* getNamespacedResources: index of the next namespace
  result,        \* getNamespacedResources: the map being filled
  calls,         \* the kubectl calls made so far, in order
  failed,        \* the kubectl calls among them that returned an error
  g,             \* the dot graph of genGraph
  subjectNodes,  \* genGraph: map[KindNamespacedName]dot.Node
  nsSubgraphs,   \* genGraph: map[string]*dot.Graph
  todo,          \* genGraph: namespaces still to be walked by the current loop
  exitStatus,    \* <<status>> once the process has ended, else <<>>
  output         \* what main printed: <<>> or <<the graph>>

vars == <<config, cluster, permissions, pc, nsIdx, result, calls, failed, g,
          subjectNodes, nsSubgraphs, todo, exitStatus, output>>

-----------------------------------------------------------------------------
\* Bounds of the input.

\* at most this many role bindings and cluster role bindings in the cluster
MaxBindings == 2

\* a JSON string field that is null or absent
Nil == "<nil>"

\* a JSON list field: None when it is null or absent, else Some(the list)
None == <<>>
Some(list) == <<list>>

-----------------------------------------------------------------------------
\* Maps (Go map[string]T) are functions with a finite domain.

EmptyMap == [k \in {} |-> TRUE]

MapPut(m, k, v) == [x \in DOMAIN m \cup {k} |-> IF x = k THEN v ELSE m[x]]

MapGet(m, k, zero) == IF k \in DOMAIN m THEN m[k] ELSE zero

\* every order in which the elements of a finite set can be walked
Orders(S) ==
  {s \in [1..Cardinality(S) -> S] : \A i, j \in 1..Cardinality(S) : i # j => s[i] # s[j]}

RECURSIVE Foldl(_, _, _)
\* fold the sequence s from the left: Op(...Op(Op(acc, s[1]), s[2])..., s[n])
Foldl(Op(_, _), acc, s) ==
  IF s = <<>> THEN acc ELSE Foldl(Op, Op(acc, Head(s)), Tail(s))

HasPrefix(s, prefix) ==
  Len(s) >= Len(prefix) /\ SubSeq(s, 1, Len(prefix)) = prefix

RECURSIVE Join(_, _)
Join(strs, sep) ==
  IF strs = <<>> THEN ""
  ELSE IF Len(strs) = 1 THEN strs[1]
  ELSE strs[1] \o sep \o Join(Tail(strs), sep)

RECURSIVE ReplaceAll(_, _, _)
\* strings.ReplaceAll for a one-character old
ReplaceAll(s, old, new) ==
  IF s = "" THEN ""
  ELSE (IF SubSeq(s, 1, 1) = old THEN new ELSE SubSeq(s, 1, 1))
         \o ReplaceAll(SubSeq(s, 2, Len(s)), old, new)

ToLower(kind) ==
  CASE kind = "ServiceAccount" -> "serviceaccount"
    [] kind = "User" -> "user"
    [] kind = "Group" -> "group"
    [] kind = "Kind" -> "kind"
    [] OTHER -> kind

contains(values, value) == \E i \in DOMAIN values : values[i] = value

shouldIgnore(name) ==
  \E i \in DOMAIN config.ignoredPrefixes : HasPrefix(name, config.ignoredPrefixes[i])

stringOrEmpty(i) == IF i = Nil THEN "" ELSE i

-----------------------------------------------------------------------------
\* The input: the flags and the records in the cluster.

SA(ns, name) == [namespace |-> ns, name |-> name]

Rule(verbs, resources, resourceNames, nonResourceURLs, apiGroups) ==
  [verbs |-> verbs, resources |-> resources, resourceNames |-> resourceNames,
   nonResourceURLs |-> nonResourceURLs, apiGroups |-> apiGroups]

RuleGetPods == Rule(<<"get">>, <<"pods">>, <<>>, <<>>, <<"">>)
RuleDeploy == Rule(<<"get", "list">>, <<"deployments">>, <<"web">>, <<>>, <<"apps">>)
RuleHealth == Rule(<<"get">>, <<>>, <<>>, <<"/healthz">>, <<>>)

\* a Role (ns # Nil) or ClusterRole (ns = Nil); rules is None for "rules": null
RoleRec(ns, name, rules) == [namespace |-> ns, name |-> name, rules |-> rules]

Subject(kind, ns, name) == [kind |-> kind, namespace |-> ns, name |-> name]

\* a RoleBinding (ns # Nil) or ClusterRoleBinding (ns = Nil)
BindingRec(ns, name, roleNs, roleName, subjects) ==
  [namespace |-> ns, name |-> name,
   roleRef |-> [namespace |-> roleNs, name |-> roleName],
   subjects |-> subjects]

SAax == Subject("ServiceAccount", "a", "x")
SAby == Subject("ServiceAccount", "b", "y")
SAas == Subject("ServiceAccount", "a", "s:x")
Uy == Subject("User", Nil, "y")

ServiceAccountSet == {SA("a", "x"), SA("a", "s:x"), SA("b", "y")}

RoleSet ==
  { RoleRec("a", "x", Some(<<RuleGetPods>>)), RoleRec("a", "y", None) }

ClusterRoleSet ==
  { RoleRec(Nil, "x", Some(<<RuleDeploy, RuleHealth>>)),
    RoleRec(Nil, "y", Some(<<>>)),
    RoleRec(Nil, "s:x", Some(<<RuleGetPods>>)) }

RoleBindingUniverse ==
  { BindingRec("a", "x", "a", "x", Some(<<SAax>>)),
    BindingRec("a", "x", Nil, "x", Some(<<SAax, SAax>>)),
    BindingRec("a", "y", Nil, "x", Some(<<SAax, Uy>>)),
    BindingRec("a", "y", "a", "y", Some(<<SAby>>)),
    BindingRec("a", "s:x", Nil, "x", Some(<<SAax>>)),
    BindingRec("b", "x", "b", "y", Some(<<SAby, SAas>>)),
    BindingRec("b", "y", "a", "x", Some(<<>>)),
    BindingRec("c", "x", Nil, "y", None) }

ClusterRoleBindingUniverse ==
  { BindingRec(Nil, "x", Nil, "x", Some(<<SAby>>)),
    BindingRec(Nil, "y", Nil, "s:x", Some(<<SAax, Uy>>)),
    BindingRec(Nil, "y", Nil, "y", None) }

\* no two records of a kind share namespace and name
KeysDistinct(S) ==
  \A r1, r2 \in S : (r1.namespace = r2.namespace /\ r1.name = r2.name) => r1 = r2

BindingSets ==
  { s \in SUBSET (RoleBindingUniverse \cup ClusterRoleBindingUniverse) :
      KeysDistinct(s) /\ Cardinality(s) <= MaxBindings }

Clusters ==
  { [sa |-> ServiceAccountSet, roles |-> RoleSet, clusterroles |-> ClusterRoleSet,
     rolebindings |-> {b \in bs : b.namespace # Nil},
     clusterrolebindings |-> {b \in bs : b.namespace = Nil}] : bs \in BindingSets }

ResourceKinds ==
  {"", "serviceaccount", "rolebinding", "clusterrolebinding", "role", "clusterrole"}

Configs ==
  [renderRules : BOOLEAN, showLegend : BOOLEAN,
   namespaces : {<<"">>, <<"a">>, <<"a", "b">>},
   ignoredPrefixes : {<<"s:">>},
   resourceKind : ResourceKinds,
   resourceNames : {<<>>, <<"x">>, <<"s:x">>}]

-----------------------------------------------------------------------------
\* Fetching the records (fetchPermissions).

\* kubectl get <kind> ... --output json, as far as the cluster decides it: all
\* records of the kind with --all-namespaces, those of one namespace with -n,
\* and with names the named ones; one name gives the record itself and not a
\* List, and a name that does not exist is an error.
Kubectl(kind, namespace, names) ==
  LET inNs == {i \in cluster[kind] : i.namespace = namespace}
      named == {i \in inNs : contains(names, i.name)}
  IN IF namespace = ""
       THEN [err |-> FALSE, kind |-> "List", items |-> cluster[kind]]
     ELSE IF names = <<>>
       THEN [err |-> FALSE, kind |-> "List", items |-> inNs]
     ELSE IF \E i \in DOMAIN names : \A r \in inNs : r.name # names[i]
       THEN [err |-> TRUE, kind |-> "", items |-> {}]
     ELSE IF Len(names) = 1
       THEN [err |-> FALSE, kind |-> "Object", items |-> named]
     ELSE [err |-> FALSE, kind |-> "List", items |-> named]

item2Name(name, namespace, item) == name

item2json(name, namespace, item) == item

\* result[nn.namespace] = ensureMap(result[nn.namespace]); result[nn.namespace][nn.name] = v
PutNamespaced(res, ns, name, v) ==
  MapPut(res, ns, MapPut(MapGet(res, ns, EmptyMap), name, v))

RECURSIVE PutAll(_, _, _)
PutAll(res, items, asName) ==
  IF items = {} THEN res
  ELSE LET i == CHOOSE x \in items : TRUE
           v == IF asName THEN item2Name(i.name, i.namespace, i)
                ELSE item2json(i.name, i.namespace, i)
       IN PutAll(PutNamespaced(res, i.namespace, i.name, v), items \ {i}, asName)

\* the body of the loop of getNamespacedResources, once kubectl has answered d
getNamespacedResourcesBody(res, d, asName) ==
  IF d.kind = "List"
    THEN PutAll(res, {i \in d.items : ~shouldIgnore(i.name)}, asName)
  ELSE PutAll(res, d.items, asName)

\* one turn of the loop of getNamespacedResources for the kind, under
\* fetchPermissions and main: an error ends the process with status -1
getNamespacedResources(kind, namespaces, names, asName, field, next) ==
  LET namespace == namespaces[nsIdx]
      d == Kubectl(kind, namespace, names)
      filled == getNamespacedResourcesBody(result, d, asName)
  IN /\ calls' = Append(calls, <<kind, namespace, names>>)
     /\ \/ /\ ~d.err
           /\ IF nsIdx < Len(namespaces)
                THEN /\ nsIdx' = nsIdx + 1
                     /\ result' = filled
                     /\ UNCHANGED <<permissions, pc>>
                ELSE /\ nsIdx' = 1
                     /\ result' = EmptyMap
                     /\ permissions' = [permissions EXCEPT ![field] = filled]
                     /\ pc' = next
           /\ UNCHANGED <<exitStatus, failed>>
        \/ \* kubectl failed, or its output is no JSON document
           /\ failed' = Append(failed, <<kind, namespace, names>>)
           /\ pc' = "exit"
           /\ exitStatus' = <<-1>>
           /\ UNCHANGED <<permissions, nsIdx, result>>
     /\ UNCHANGED <<config, cluster, g, subjectNodes, nsSubgraphs, todo, output>>

getServiceAccounts ==
  /\ pc = "getServiceAccounts"
  /\ getNamespacedResources("sa", config.namespaces,
        IF config.resourceKind = "serviceaccount" THEN config.resourceNames ELSE <<>>,
        TRUE, "ServiceAccounts", "getRoles")

getRoles ==
  /\ pc = "getRoles"
  /\ getNamespacedResources("roles", <<"">>, <<>>, FALSE, "Roles", "getRoleBindings")

getRoleBindings ==
  /\ pc = "getRoleBindings"
  /\ getNamespacedResources("rolebindings", <<"">>, <<>>, FALSE, "RoleBindings",
                            "getClusterRoles")

RECURSIVE PutNames(_, _)
PutNames(res, items) ==
  IF items = {} THEN res
  ELSE LET i == CHOOSE x \in items : TRUE
       IN PutNames(MapPut(res, i.name, i), items \ {i})

\* getClusterScopedResources under a fetchPermissions that drops the error and
\* goes on with the empty result
getClusterScopedResourcesErrorDropped(kind, field, next) ==
  /\ calls' = Append(calls, <<kind, "", <<>> >>)
  /\ \/ /\ permissions' = [permissions EXCEPT ![field] =
                PutNames(EmptyMap, {i \in cluster[kind] : ~shouldIgnore(i.name)})]
        /\ UNCHANGED failed
     \/ /\ failed' = Append(failed, <<kind, "", <<>> >>)
        /\ permissions' = [permissions EXCEPT ![field] = EmptyMap]
  /\ pc' = next
  /\ UNCHANGED <<config, cluster, nsIdx, result, g, subjectNodes, nsSubgraphs, todo,
                 exitStatus, output>>

getClusterScopedResources(kind, field, next) ==
  /\ calls' = Append(calls, <<kind, "", <<>> >>)
  /\ \/ /\ permissions' = [permissions EXCEPT ![field] =
                PutNames(EmptyMap, {i \in cluster[kind] : ~shouldIgnore(i.name)})]
        /\ pc' = next
        /\ UNCHANGED <<exitStatus, failed>>
     \/ \* kubectl failed, or its output is no JSON document
        /\ failed' = Append(failed, <<kind, "", <<>> >>)
        /\ pc' = "exit"
        /\ exitStatus' = <<-1>>
        /\ UNCHANGED permissions
  /\ UNCHANGED <<config, cluster, nsIdx, result, g, subjectNodes, nsSubgraphs, todo, output>>

getClusterRoles ==
  /\ pc = "getClusterRoles"
  /\ getClusterScopedResources("clusterroles", "ClusterRoles", "getClusterRoleBindings")

getClusterRoleBindings ==
  /\ pc = "getClusterRoleBindings"
  /\ getClusterScopedResources("clusterrolebindings", "ClusterRoleBindings", "genGraph")

-----------------------------------------------------------------------------
\* The dot graph.

Root == <<>>

NewGraph ==
  [attrs |-> [newrank |-> "true"], subgraphs |-> EmptyMap, nodes |-> EmptyMap,
   edges |-> EmptyBag]

\* (*dot.Graph).Subgraph(id, dot.ClusterOption{}): the subgraph of that id, made
\* when the parent has none
Subgraph(G, parent, id) ==
  IF Append(parent, id) \in DOMAIN G.subgraphs THEN G
  ELSE [G EXCEPT !.subgraphs = MapPut(@, Append(parent, id), [label |-> id])]

SubgraphAttr(G, path, attrs) ==
  [G EXCEPT !.subgraphs = MapPut(@, path, attrs @@ G.subgraphs[path])]

\* (*dot.Graph).Node(id): the node of that id in the graph, made when absent
Node(G, path, id) ==
  IF <<path, id>> \in DOMAIN G.nodes THEN G
  ELSE [G EXCEPT !.nodes = MapPut(@, <<path, id>>, [label |-> id])]

\* Node.Attr, for several attributes: a later value replaces an earlier one
Attr(G, key, attrs) ==
  [G EXCEPT !.nodes = MapPut(@, key, attrs @@ G.nodes[key])]

\* Node.Edge / Graph.Edge: one more edge, also between nodes already joined
Edge(G, from, to, dir) ==
  [G EXCEPT !.edges = @ (+) SetToBag({[from |-> from, to |-> to, dir |-> dir]})]

iff(condition, string1, string2) == IF condition THEN string1 ELSE string2

\* isFocused with the name filter read as allResourceNames || contains(...)
isFocusedAnyName(kind, ns, name) ==
  LET allNamespaces == Len(config.namespaces) = 1 /\ config.namespaces[1] = ""
  IN /\ config.resourceKind = kind
     /\ (allNamespaces \/ contains(config.namespaces, ns))
     /\ (Len(config.resourceNames) = 0 \/ contains(config.resourceNames, name))

isFocused(kind, ns, name) ==
  LET allNamespaces == Len(config.namespaces) = 1 /\ config.namespaces[1] = ""
  IN /\ config.resourceKind = kind
     /\ (allNamespaces \/ contains(config.namespaces, ns))
     /\ contains(config.resourceNames, name)

SubjectNodeId(kind, name) == kind \o "-" \o name
RoleBindingNodeId(name) == "rb-" \o name
ClusterRoleBindingNodeId(name) == "crb-" \o name
RoleNodeId(namespace, name) == "r-" \o namespace \o "/" \o name
ClusterRoleNodeId(namespace, name) == "cr-" \o namespace \o "/" \o name
RulesNodeId(namespace, roleName) == "rules-" \o namespace \o "/" \o roleName

newNamespaceSubgraph(G, ns) ==
  SubgraphAttr(Subgraph(G, Root, ns), <<ns>>, [style |-> "dashed"])

newSubjectNode(G, path, kind, name, highlight) ==
  Attr(Node(G, path, SubjectNodeId(kind, name)), <<path, SubjectNodeId(kind, name)>>,
       [label |-> name \o "\n(" \o kind \o ")", shape |-> "box", style |-> "filled",
        penwidth |-> iff(highlight, "2.0", "1.0")])

newRoleBindingNode(G, path, name, highlight) ==
  Attr(Node(G, path, RoleBindingNodeId(name)), <<path, RoleBindingNodeId(name)>>,
       [label |-> name, shape |-> "octagon", style |-> "filled",
        penwidth |-> iff(highlight, "2.0", "1.0")])

newClusterRoleBindingNode(G, path, name, highlight) ==
  Attr(Node(G, path, ClusterRoleBindingNodeId(name)),
       <<path, ClusterRoleBindingNodeId(name)>>,
       [label |-> name, shape |-> "doubleoctagon", style |-> "filled",
        penwidth |-> iff(highlight, "2.0", "1.0")])

newRoleNode(G, path, namespace, name, highlight) ==
  Attr(Node(G, path, RoleNodeId(namespace, name)), <<path, RoleNodeId(namespace, name)>>,
       [label |-> name, shape |-> "octagon", style |-> "filled",
        penwidth |-> iff(highlight, "2.0", "1.0")])

newClusterRoleNode(G, path, namespace, name, highlight) ==
  Attr(Node(G, path, ClusterRoleNodeId(namespace, name)),
       <<path, ClusterRoleNodeId(namespace, name)>>,
       [label |-> name, shape |-> "doubleoctagon",
        style |-> iff(namespace = "", "filled", "filled,dashed"),
        penwidth |-> iff(highlight, "2.0", "1.0")])

newRulesNode(G, path, namespace, roleName, rules) ==
  LET escaped == ReplaceAll(ReplaceAll(ReplaceAll(rules, "\\", "\\\\"), "\n", "\\l"),
                            "\"", "\\\"")
  IN Attr(Node(G, path, RulesNodeId(namespace, roleName)),
          <<path, RulesNodeId(namespace, roleName)>>,
          [label |-> "\"" \o escaped \o "\"", shape |-> "note"])

Legend == <<"LEGEND">>
LegendNamespace == <<"LEGEND", "Namespace">>

renderLegend(G) ==
  IF ~config.showLegend THEN G
  ELSE
    LET g1 == SubgraphAttr(Subgraph(Subgraph(G, Root, "LEGEND"), Legend, "Namespace"),
                           LegendNamespace, [style |-> "dashed"])
        sa == <<LegendNamespace, SubjectNodeId("Kind", "Subject")>>
        role == <<LegendNamespace, RoleNodeId("ns", "Role")>>
        clusterRoleBoundLocally == <<LegendNamespace, ClusterRoleNodeId("ns", "ClusterRole")>>
        clusterrole == <<Legend, ClusterRoleNodeId("", "ClusterRole")>>
        roleBinding == <<LegendNamespace, RoleBindingNodeId("RoleBinding")>>
        roleBinding2 == <<LegendNamespace, RoleBindingNodeId("RoleBinding-to-ClusterRole")>>
        clusterRoleBinding == <<Legend, ClusterRoleBindingNodeId("ClusterRoleBinding")>>
        g2 == newSubjectNode(g1, LegendNamespace, "Kind", "Subject", FALSE)
        g3 == newRoleNode(g2, LegendNamespace, "ns", "Role", FALSE)
        g4 == newClusterRoleNode(g3, LegendNamespace, "ns", "ClusterRole", FALSE)
        g5 == newClusterRoleNode(g4, Legend, "", "ClusterRole", FALSE)
        g6 == Edge(Edge(newRoleBindingNode(g5, LegendNamespace, "RoleBinding", FALSE),
                        sa, roleBinding, "back"), roleBinding, role, "")
        g7 == Attr(newRoleBindingNode(g6, LegendNamespace, "RoleBinding-to-ClusterRole",
                                      FALSE),
                   roleBinding2, [label |-> "RoleBinding"])
        g8 == Edge(Edge(g7, sa, roleBinding2, "back"), roleBinding2,
                   clusterRoleBoundLocally, "")
        g9 == Edge(Edge(newClusterRoleBindingNode(g8, Legend, "ClusterRoleBinding", FALSE),
                        sa, clusterRoleBinding, "back"), clusterRoleBinding, clusterrole, "")
        nsrules == <<LegendNamespace, RulesNodeId("ns", "Role")>>
        nsrules2 == <<LegendNamespace, RulesNodeId("ns", "ClusterRole")>>
        clusterrules == <<Legend, RulesNodeId("", "ClusterRole")>>
        g10 == Edge(newRulesNode(g9, LegendNamespace, "ns", "Role",
                                 "Namespace-scoped\naccess rules"), role, nsrules, "")
        g11 == Attr(newRulesNode(g10, LegendNamespace, "ns", "ClusterRole",
                                 "Namespace-scoped access rules From ClusterRole"),
                    nsrules2, [label |-> "Namespace-scoped\naccess rules"])
        g12 == Edge(g11, clusterRoleBoundLocally, nsrules2, "")
        g13 == Edge(newRulesNode(g12, Legend, "", "ClusterRole",
                                 "Cluster-scoped\naccess rules"),
                    clusterrole, clusterrules, "")
    IN IF config.renderRules THEN g13 ELSE g9

-----------------------------------------------------------------------------
\* Access rules.

toString(values) == Join(values, ",")

toHumanReadableRule(rule) ==
  LET resourceKinds == toString(rule.resources)
      resourceNames == toString(rule.resourceNames)
      nonResourceURLs == toString(rule.nonResourceURLs)
      apiGroups == toString(rule.apiGroups)
  IN toString(rule.verbs)
       \o (IF resourceKinds # "" THEN " " \o resourceKinds ELSE "")
       \o (IF resourceNames # "" THEN " \"" \o resourceNames \o "\"" ELSE "")
       \o (IF nonResourceURLs # "" THEN " " \o nonResourceURLs ELSE "")
       \o (IF apiGroups # "" THEN " (" \o apiGroups \o ")" ELSE "")

RECURSIVE RuleLines(_)
RuleLines(rules) ==
  IF rules = <<>> THEN ""
  ELSE toHumanReadableRule(Head(rules)) \o "\n" \o RuleLines(Tail(rules))

\* role["rules"].([]interface{}) panics when the role has "rules": null
findAccessRules(roles, roleName) ==
  IF roleName \notin DOMAIN roles THEN [panic |-> FALSE, resources |-> ""]
  ELSE IF roles[roleName].rules = None THEN [panic |-> TRUE, resources |-> ""]
  ELSE [panic |-> FALSE, resources |-> RuleLines(roles[roleName].rules[1])]

\* lookupResources that returns rules + clusterRules
lookupResourcesNamespacedFirst(namespace, role) ==
  LET rules == IF namespace # ""
                 THEN findAccessRules(MapGet(permissions.Roles, namespace, EmptyMap), role)
               ELSE [panic |-> FALSE, resources |-> ""]
      clusterRules == findAccessRules(permissions.ClusterRoles, role)
  IN [panic |-> rules.panic \/ clusterRules.panic,
      rules |-> rules.resources \o clusterRules.resources]

lookupResources(namespace, role) ==
  LET rules == IF namespace # ""
                 THEN findAccessRules(MapGet(permissions.Roles, namespace, EmptyMap), role)
               ELSE [panic |-> FALSE, resources |-> ""]
      clusterRules == findAccessRules(permissions.ClusterRoles, role)
  IN [panic |-> rules.panic \/ clusterRules.panic,
      rules |-> clusterRules.resources \o rules.resources]

-----------------------------------------------------------------------------
\* Graph assembly (genGraph).  st is the graph under construction with the two
\* lookup tables of genGraph; st.panic is set once the run has panicked.

\* lookupBindings without the test binding["subjects"] != nil: a binding
\* without subject list is one with no subjects
lookupBindingsNilAsEmpty(bindings) ==
  { [namespace |-> stringOrEmpty(bindings[n].namespace),
     name |-> bindings[n].name,
     role |-> [namespace |-> stringOrEmpty(bindings[n].roleRef.namespace),
               name |-> bindings[n].roleRef.name],
     subjects |-> IF bindings[n].subjects = None THEN <<>>
                  ELSE [i \in DOMAIN bindings[n].subjects[1] |->
                          [kind |-> bindings[n].subjects[1][i].kind,
                           namespace |-> stringOrEmpty(bindings[n].subjects[1][i].namespace),
                           name |-> bindings[n].subjects[1][i].name]]] :
      n \in DOMAIN bindings }

\* the Binding values lookupBindings(bindings, "", "") returns, as a set: its
\* result is in the order of the map iteration
lookupBindings(bindings) ==
  { [namespace |-> stringOrEmpty(bindings[n].namespace),
     name |-> bindings[n].name,
     role |-> [namespace |-> stringOrEmpty(bindings[n].roleRef.namespace),
               name |-> bindings[n].roleRef.name],
     subjects |-> [i \in DOMAIN bindings[n].subjects[1] |->
                     [kind |-> bindings[n].subjects[1][i].kind,
                      namespace |-> stringOrEmpty(bindings[n].subjects[1][i].namespace),
                      name |-> bindings[n].subjects[1][i].name]]] :
      n \in {m \in DOMAIN bindings : bindings[m].subjects # None} }

existingOrNewNamespaceSubgraph(st, ns) ==
  IF ns \in DOMAIN st.nsSubgraphs THEN st
  ELSE [st EXCEPT !.g = newNamespaceSubgraph(st.g, ns),
                  !.nsSubgraphs = MapPut(@, ns, <<ns>>)]

existingOrNewSubjectNode(st, gns, kind, ns, name) ==
  LET knn == [kind |-> kind, namespace |-> ns, name |-> name]
  IN IF knn \in DOMAIN st.subjectNodes THEN st
     ELSE [st EXCEPT
             !.g = newSubjectNode(st.g, gns, kind, name, isFocused(ToLower(kind), ns, name)),
             !.subjectNodes = MapPut(@, knn, <<gns, SubjectNodeId(kind, name)>>)]

RoleNodeKey(gns, binding, role) ==
  IF role.namespace = "" THEN <<gns, ClusterRoleNodeId(binding.namespace, role.name)>>
  ELSE <<gns, RoleNodeId(binding.namespace, role.name)>>

BindingNodeKey(gns, binding) ==
  IF binding.namespace = "" THEN <<gns, ClusterRoleBindingNodeId(binding.name)>>
  ELSE <<gns, RoleBindingNodeId(binding.name)>>

\* renderBindingAndRole that asks isFocused about the name of the binding
\* where it is to ask about the name of the cluster role
renderBindingAndRoleFocusByBinding(st, gns, binding, role) ==
  LET g1 == IF role.namespace = ""
              THEN newClusterRoleNode(st.g, gns, binding.namespace, role.name,
                                      isFocused("clusterrole", role.namespace, binding.name))
            ELSE newRoleNode(st.g, gns, binding.namespace, role.name,
                             isFocused("role", role.namespace, role.name))
      g2 == IF binding.namespace = ""
              THEN newClusterRoleBindingNode(g1, gns, binding.name,
                                             isFocused("clusterrolebinding", "", binding.name))
            ELSE newRoleBindingNode(g1, gns, binding.name,
                                    isFocused("rolebinding", binding.namespace, binding.name))
      g3 == Edge(g2, BindingNodeKey(gns, binding), RoleNodeKey(gns, binding, role), "")
      res == lookupResources(binding.namespace, role.name)
  IN IF ~config.renderRules THEN [st EXCEPT !.g = g3]
     ELSE IF res.panic THEN [st EXCEPT !.g = g3, !.panic = TRUE]
     ELSE IF res.rules = "" THEN [st EXCEPT !.g = g3]
     ELSE [st EXCEPT !.g =
             Edge(newRulesNode(g3, gns, binding.namespace, role.name, res.rules),
                  RoleNodeKey(gns, binding, role),
                  <<gns, RulesNodeId(binding.namespace, role.name)>>, "")]

\* renderBindingAndRole that makes the node of a cluster role in the root
\* graph where it is to make it in the graph of the binding
renderBindingAndRoleClusterRoleInRoot(st, gns, binding, role) ==
  LET roleGraph == IF role.namespace = "" THEN Root ELSE gns
      g1 == IF role.namespace = ""
              THEN newClusterRoleNode(st.g, roleGraph, binding.namespace, role.name,
                                      isFocused("clusterrole", role.namespace, role.name))
            ELSE newRoleNode(st.g, gns, binding.namespace, role.name,
                             isFocused("role", role.namespace, role.name))
      g2 == IF binding.namespace = ""
              THEN newClusterRoleBindingNode(g1, gns, binding.name,
                                             isFocused("clusterrolebinding", "", binding.name))
            ELSE newRoleBindingNode(g1, gns, binding.name,
                                    isFocused("rolebinding", binding.namespace, binding.name))
      g3 == Edge(g2, BindingNodeKey(gns, binding), RoleNodeKey(roleGraph, binding, role), "")
      res == lookupResources(binding.namespace, role.name)
  IN IF ~config.renderRules THEN [st EXCEPT !.g = g3]
     ELSE IF res.panic THEN [st EXCEPT !.g = g3, !.panic = TRUE]
     ELSE IF res.rules = "" THEN [st EXCEPT !.g = g3]
     ELSE [st EXCEPT !.g =
             Edge(newRulesNode(g3, gns, binding.namespace, role.name, res.rules),
                  RoleNodeKey(roleGraph, binding, role),
                  <<gns, RulesNodeId(binding.namespace, role.name)>>, "")]

\* the graph after renderBindingAndRole(gns, binding, role); the node it returns
\* is BindingNodeKey(gns, binding)
renderBindingAndRole(st, gns, binding, role) ==
  LET g1 == IF role.namespace = ""
              THEN newClusterRoleNode(st.g, gns, binding.namespace, role.name,
                                      isFocused("clusterrole", role.namespace, role.name))
            ELSE newRoleNode(st.g, gns, binding.namespace, role.name,
                             isFocused("role", role.namespace, role.name))
      g2 == IF binding.namespace = ""
              THEN newClusterRoleBindingNode(g1, gns, binding.name,
                                             isFocused("clusterrolebinding", "", binding.name))
            ELSE newRoleBindingNode(g1, gns, binding.name,
                                    isFocused("rolebinding", binding.namespace, binding.name))
      g3 == Edge(g2, BindingNodeKey(gns, binding), RoleNodeKey(gns, binding, role), "")
      res == lookupResources(binding.namespace, role.name)
  IN IF ~config.renderRules THEN [st EXCEPT !.g = g3]
     ELSE IF res.panic THEN [st EXCEPT !.g = g3, !.panic = TRUE]
     ELSE IF res.rules = "" THEN [st EXCEPT !.g = g3]
     ELSE [st EXCEPT !.g =
             Edge(newRulesNode(g3, gns, binding.namespace, role.name, res.rules),
                  RoleNodeKey(gns, binding, role),
                  <<gns, RulesNodeId(binding.namespace, role.name)>>, "")]

AllNamespaces == Len(config.namespaces) = 1 /\ config.namespaces[1] = ""

AllResourceNames == Len(config.resourceNames) = 0

\* renderBinding whose clusterrole case tests the namespace of the role as the
\* role case does
renderBindingRoleNamespaceOnly(binding) ==
  CASE config.resourceKind = "" ->
         AllNamespaces \/ contains(config.namespaces, binding.namespace)
    [] config.resourceKind = "rolebinding" ->
         /\ AllNamespaces \/ contains(config.namespaces, binding.namespace)
         /\ AllResourceNames \/ contains(config.resourceNames, binding.name)
    [] config.resourceKind = "clusterrolebinding" ->
         /\ binding.namespace = ""
         /\ AllResourceNames \/ contains(config.resourceNames, binding.name)
    [] config.resourceKind = "serviceaccount" ->
         \E i \in DOMAIN binding.subjects :
           /\ binding.subjects[i].kind = "ServiceAccount"
           /\ AllNamespaces \/ contains(config.namespaces, binding.subjects[i].namespace)
           /\ AllResourceNames \/ contains(config.resourceNames, binding.subjects[i].name)
    [] config.resourceKind \in {"role", "clusterrole"} ->
         /\ AllNamespaces \/ contains(config.namespaces, binding.role.namespace)
         /\ AllResourceNames \/ contains(config.resourceNames, binding.role.name)
    [] OTHER -> FALSE

renderBinding(binding) ==
  CASE config.resourceKind = "" ->
         AllNamespaces \/ contains(config.namespaces, binding.namespace)
    [] config.resourceKind = "rolebinding" ->
         /\ AllNamespaces \/ contains(config.namespaces, binding.namespace)
         /\ AllResourceNames \/ contains(config.resourceNames, binding.name)
    [] config.resourceKind = "clusterrolebinding" ->
         /\ binding.namespace = ""
         /\ AllResourceNames \/ contains(config.resourceNames, binding.name)
    [] config.resourceKind = "serviceaccount" ->
         \E i \in DOMAIN binding.subjects :
           /\ binding.subjects[i].kind = "ServiceAccount"
           /\ AllNamespaces \/ contains(config.namespaces, binding.subjects[i].namespace)
           /\ AllResourceNames \/ contains(config.resourceNames, binding.subjects[i].name)
    [] config.resourceKind = "role" ->
         /\ AllNamespaces \/ contains(config.namespaces, binding.role.namespace)
         /\ AllResourceNames \/ contains(config.resourceNames, binding.role.name)
    [] config.resourceKind = "clusterrole" ->
         /\ \/ binding.role.namespace = ""
            \/ AllNamespaces
            \/ contains(config.namespaces, binding.role.namespace)
         /\ AllResourceNames \/ contains(config.resourceNames, binding.role.name)
    [] OTHER -> FALSE

\* renderSubject without the test of the serviceaccount case
renderSubjectAlways(subject) ==
  config.resourceKind \in {"", "rolebinding", "clusterrolebinding", "role", "clusterrole",
                           "serviceaccount"}

renderSubject(subject) ==
  CASE config.resourceKind \in {"", "rolebinding", "clusterrolebinding", "role",
                               "clusterrole"} -> TRUE
    [] config.resourceKind = "serviceaccount" ->
         /\ AllNamespaces \/ contains(config.namespaces, subject.namespace)
         /\ AllResourceNames \/ contains(config.resourceNames, subject.name)
    [] OTHER -> FALSE

\* genGraph, lines 474-497: the node of one subject of a binding; st.saNodes
\* collects the nodes of the binding's subjects
SubjectOfBinding(st, subject) ==
  IF shouldIgnore(subject.name) \/ ~renderSubject(subject) THEN st
  ELSE LET s1 == existingOrNewNamespaceSubgraph(st, subject.namespace)
           s2 == existingOrNewSubjectNode(s1, s1.nsSubgraphs[subject.namespace],
                                          subject.kind, subject.namespace, subject.name)
       IN [s2 EXCEPT !.saNodes = Append(@,
             s2.subjectNodes[[kind |-> subject.kind, namespace |-> subject.namespace,
                              name |-> subject.name]])]

SubjectEdge(G, saNode, bindingNode) == Edge(G, saNode, bindingNode, "back")

\* RenderOneBinding with saNodes declared outside the loop over the bindings:
\* the subject nodes of the bindings before are still in it
RenderOneBindingKeepingNodes(st, binding) ==
  IF st.panic \/ ~renderBinding(binding) THEN st
  ELSE LET s1 == existingOrNewNamespaceSubgraph(st, binding.namespace)
           gns == s1.nsSubgraphs[binding.namespace]
           s2 == renderBindingAndRole(s1, gns, binding, binding.role)
           s3 == Foldl(SubjectOfBinding, s2, binding.subjects)
           bindingNode == BindingNodeKey(gns, binding)
           AddEdge(G, saNode) == SubjectEdge(G, saNode, bindingNode)
       IN IF s2.panic THEN s2
          ELSE [s3 EXCEPT !.g = Foldl(AddEdge, s3.g, s3.saNodes)]

\* genGraph, lines 445-502: one binding of the loop over the bindings
RenderOneBinding(st, binding) ==
  IF st.panic \/ ~renderBinding(binding) THEN st
  ELSE LET s1 == existingOrNewNamespaceSubgraph(st, binding.namespace)
           gns == s1.nsSubgraphs[binding.namespace]
           s2 == renderBindingAndRole(s1, gns, binding, binding.role)
           s3 == Foldl(SubjectOfBinding, [s2 EXCEPT !.saNodes = <<>>], binding.subjects)
           bindingNode == BindingNodeKey(gns, binding)
           AddEdge(G, saNode) == SubjectEdge(G, saNode, bindingNode)
       IN IF s2.panic THEN s2
          ELSE [s3 EXCEPT !.g = Foldl(AddEdge, s3.g, s3.saNodes), !.saNodes = <<>>]

\* a sequence of the elements of S; a loop over a map takes them in any order
SeqOf(S) == CHOOSE s \in Orders(S) : TRUE

Without(s, i) == SubSeq(s, 1, i - 1) \o SubSeq(s, i + 1, Len(s))

\* determineNamespacesToShow that collects the namespaces of the bindings and
\* of the roles only
determineNamespacesToShowNoAccounts ==
  IF Len(config.namespaces) = 1 /\ config.namespaces[1] = ""
    THEN SeqOf(DOMAIN permissions.RoleBindings \cup DOMAIN permissions.Roles)
  ELSE config.namespaces

determineNamespacesToShow ==
  IF Len(config.namespaces) = 1 /\ config.namespaces[1] = ""
    THEN SeqOf(DOMAIN permissions.ServiceAccounts \cup DOMAIN permissions.RoleBindings
                 \cup DOMAIN permissions.Roles)
  ELSE config.namespaces

St == [g |-> g, nsSubgraphs |-> nsSubgraphs, subjectNodes |-> subjectNodes,
       saNodes |-> <<>>, panic |-> FALSE]

\* genGraph, lines 415-427: the graph with its legend, the two tables, and the
\* namespaces the loop over the service accounts walks
genGraphStart ==
  /\ pc = "genGraph"
  /\ g' = renderLegend(NewGraph)
  /\ subjectNodes' = EmptyMap
  /\ nsSubgraphs' = MapPut(EmptyMap, "", Root)
  /\ todo' = IF config.resourceKind = "" \/ config.resourceKind = "serviceaccount"
               THEN determineNamespacesToShow ELSE <<>>
  /\ pc' = "subjects"
  /\ UNCHANGED <<config, cluster, permissions, nsIdx, result, calls, failed, exitStatus,
                 output>>

\* genGraph, lines 427-433: one namespace of the loop over the namespaces to
\* show, with its service accounts in the order of the map iteration
genGraphSubjects ==
  /\ pc = "subjects"
  /\ \E i \in DOMAIN todo :
       /\ AllNamespaces \/ i = 1
       /\ LET ns == todo[i]
              s1 == existingOrNewNamespaceSubgraph(St, ns)
              accounts == MapGet(permissions.ServiceAccounts, ns, EmptyMap)
              AddAccount(st, sa) ==
                existingOrNewSubjectNode(st, s1.nsSubgraphs[ns], "ServiceAccount", ns, sa)
          IN \E order \in Orders({accounts[n] : n \in DOMAIN accounts}) :
               LET s2 == Foldl(AddAccount, s1, order)
               IN /\ g' = s2.g
                  /\ subjectNodes' = s2.subjectNodes
                  /\ nsSubgraphs' = s2.nsSubgraphs
       /\ todo' = Without(todo, i)
  /\ UNCHANGED <<config, cluster, permissions, pc, nsIdx, result, calls, failed,
                 exitStatus, output>>

\* genGraph, line 436: the cluster role bindings become the role bindings of
\* the namespace ""
genGraphMerge ==
  /\ pc = "subjects"
  /\ todo = <<>>
  /\ permissions' = [permissions EXCEPT
                       !.RoleBindings = MapPut(@, "", permissions.ClusterRoleBindings)]
  /\ todo' = SeqOf(DOMAIN permissions.RoleBindings \cup {""})
  /\ pc' = "bindings"
  /\ UNCHANGED <<config, cluster, nsIdx, result, calls, failed, g, subjectNodes,
                 nsSubgraphs, exitStatus, output>>

\* genGraph, lines 439-503: one namespace of the loop over the role bindings,
\* with its bindings in the order lookupBindings returns them; a panic ends
\* the process with status 2
genGraphBindings ==
  /\ pc = "bindings"
  /\ \E i \in DOMAIN todo :
       /\ \E order \in Orders(lookupBindings(permissions.RoleBindings[todo[i]])) :
            LET s == Foldl(RenderOneBinding, St, order)
            IN IF s.panic
                 THEN /\ pc' = "exit"
                      /\ exitStatus' = <<2>>
                      /\ UNCHANGED <<g, subjectNodes, nsSubgraphs>>
               ELSE /\ g' = s.g
                    /\ subjectNodes' = s.subjectNodes
                    /\ nsSubgraphs' = s.nsSubgraphs
                    /\ UNCHANGED <<pc, exitStatus>>
       /\ todo' = Without(todo, i)
  /\ UNCHANGED <<config, cluster, permissions, nsIdx, result, calls, failed, output>>

\* main, lines 69-70: genGraph has returned and the graph is printed
printGraph ==
  /\ pc = "bindings"
  /\ todo = <<>>
  /\ output' = <<g>>
  /\ exitStatus' = <<0>>
  /\ pc' = "done"
  /\ UNCHANGED <<config, cluster, permissions, nsIdx, result, calls, failed, g,
                 subjectNodes, nsSubgraphs, todo>>

-----------------------------------------------------------------------------

Init ==
  /\ config \in Configs
  /\ cluster \in Clusters
  /\ permissions = [ServiceAccounts |-> EmptyMap, Roles |-> EmptyMap,
                    ClusterRoles |-> EmptyMap, RoleBindings |-> EmptyMap,
                    ClusterRoleBindings |-> EmptyMap]
  /\ pc = "getServiceAccounts"
  /\ nsIdx = 1
  /\ result = EmptyMap
  /\ calls = <<>>
  /\ failed = <<>>
  /\ g = NewGraph
  /\ subjectNodes = EmptyMap
  /\ nsSubgraphs = EmptyMap
  /\ todo = <<>>
  /\ exitStatus = <<>>
  /\ output = <<>>

Next ==
  \/ getServiceAccounts
  \/ getRoles
  \/ getRoleBindings
  \/ getClusterRoles
  \/ getClusterRoleBindings
  \/ genGraphStart
  \/ genGraphSubjects
  \/ genGraphMerge
  \/ genGraphBindings
  \/ printGraph

Spec == Init /\ [][Next]_vars

-----------------------------------------------------------------------------
\* Vocabulary of the properties.

Done == pc = "done"

\* the nodes and edges made from the fetched records: all but the legend's
DataNodes == {k \in DOMAIN g.nodes : k[1] \notin {Legend, LegendNamespace}}

DataEdges == {e \in BagToSet(g.edges) : e.from \in DataNodes \/ e.to \in DataNodes}

\* the scope container of a namespace; the root graph is the cluster scope
Container(ns) == IF ns = "" THEN Root ELSE <<ns>>

Highlighted(k) == "penwidth" \in DOMAIN g.nodes[k] /\ g.nodes[k].penwidth = "2.0"

Excluded(name) ==
  \E i \in DOMAIN config.ignoredPrefixes : HasPrefix(name, config.ignoredPrefixes[i])

NsMatches(ns) == config.namespaces = <<"">> \/ ns \in {config.namespaces[i] : i \in DOMAIN config.namespaces}

NameMatches(name) ==
  config.resourceNames = <<>> \/ name \in {config.resourceNames[i] : i \in DOMAIN config.resourceNames}

NameListed(name) == name \in {config.resourceNames[i] : i \in DOMAIN config.resourceNames}

\* the binding records genGraph walks, and what they say
BindingRecords ==
  UNION { {permissions.RoleBindings[ns][n] : n \in DOMAIN permissions.RoleBindings[ns]} :
            ns \in DOMAIN permissions.RoleBindings }

Str(field) == IF field = Nil THEN "" ELSE field

SubjectsOf(r) ==
  IF r.subjects = None THEN <<>>
  ELSE [i \in DOMAIN r.subjects[1] |->
          [kind |-> r.subjects[1][i].kind, namespace |-> Str(r.subjects[1][i].namespace),
           name |-> r.subjects[1][i].name]]

Identities == UNION { {SubjectsOf(r)[i] : i \in DOMAIN SubjectsOf(r)} : r \in BindingRecords }

SubjectKey(s) == <<Container(s.namespace), s.kind \o "-" \o s.name>>

BindingKey(r) ==
  <<Container(Str(r.namespace)),
    (IF Str(r.namespace) = "" THEN "crb-" ELSE "rb-") \o r.name>>

RoleKey(r) ==
  <<Container(Str(r.namespace)),
    (IF Str(r.roleRef.namespace) = "" THEN "cr-" ELSE "r-") \o Str(r.namespace) \o "/"
      \o r.roleRef.name>>

RulesKey(r) ==
  <<Container(Str(r.namespace)), "rules-" \o Str(r.namespace) \o "/" \o r.roleRef.name>>

IsRendered(r) == BindingKey(r) \in DOMAIN g.nodes

\* a subject that is to get a node and an edge on a rendered binding
IncludedSubject(s) ==
  /\ ~Excluded(s.name)
  /\ config.resourceKind = "serviceaccount" => NsMatches(s.namespace) /\ NameMatches(s.name)

\* the places of the subject list of r that name the included subject s
Entries(r, s) ==
  {i \in DOMAIN SubjectsOf(r) : SubjectsOf(r)[i] = s /\ IncludedSubject(s)}

EdgeCount(from, to, dir) == CopiesIn([from |-> from, to |-> to, dir |-> dir], g.edges)

\* the number of edges that leave the node from, with their multiplicity
OutDegree(from) ==
  BagCardinality([e \in {x \in BagToSet(g.edges) : x.from = from} |-> g.edges[e]])

\* the number of subject-to-binding edges that reach the node to
BackInDegree(to) ==
  BagCardinality([e \in {x \in BagToSet(g.edges) : x.to = to /\ x.dir = "back"}
                    |-> g.edges[e]])

RECURSIVE Sum(_, _)
Sum(f, S) == IF S = {} THEN 0 ELSE LET x == CHOOSE y \in S : TRUE IN f[x] + Sum(f, S \ {x})

\* the rendered bindings that list the included subject s
BindingsOf(s) == {r \in BindingRecords : IsRendered(r) /\ Entries(r, s) # {}}

-----------------------------------------------------------------------------
\* C1: once the graph is assembled, no identity (a fetched service account or
\* a subject of a binding) and no role or cluster role whose name starts with
\* an exclusion prefix is a node of it, and so none is an endpoint of an edge.
\* The code breaks this: it never tests the name of a referenced role, and it
\* does not test a service account that kubectl returned as a single record.
C1_NoExcludedNode ==
  Done =>
    /\ \A r \in BindingRecords :
         /\ Excluded(r.roleRef.name) => RoleKey(r) \notin DataNodes
         /\ \A i \in DOMAIN SubjectsOf(r) :
              Excluded(SubjectsOf(r)[i].name) => SubjectKey(SubjectsOf(r)[i]) \notin DataNodes
    /\ \A ns \in DOMAIN permissions.ServiceAccounts :
         \A n \in DOMAIN permissions.ServiceAccounts[ns] :
           Excluded(n) => <<Container(ns), "ServiceAccount-" \o n>> \notin DataNodes

-----------------------------------------------------------------------------
\* C2 as stated: an identity that is an included subject of N >= 2 rendered
\* bindings has one node and exactly N subject-to-binding edges, all from it.
C2_ExactlyNEdges ==
  Done =>
    \A s \in Identities :
      Cardinality(BindingsOf(s)) >= 2 =>
        /\ SubjectKey(s) \in DataNodes
        /\ OutDegree(SubjectKey(s)) = Cardinality(BindingsOf(s))

\* C2 as amended: such an identity has one node, and each rendered binding is
\* reached by one edge per place of its subject list that names the identity,
\* from that node, and by no other subject-to-binding edge.
C2_OneNodeEdgePerEntry ==
  Done =>
    \A s \in Identities :
      Cardinality(BindingsOf(s)) >= 2 =>
        /\ SubjectKey(s) \in DataNodes
        /\ \A r \in BindingsOf(s) :
             /\ EdgeCount(SubjectKey(s), BindingKey(r), "back") = Cardinality(Entries(r, s))
             /\ BackInDegree(BindingKey(r)) =
                  Sum([t \in Identities |-> Cardinality(Entries(r, t))], Identities)
        /\ OutDegree(SubjectKey(s)) =
             Sum([r \in BindingsOf(s) |-> Cardinality(Entries(r, s))], BindingsOf(s))
        /\ OutDegree(SubjectKey(s)) >= Cardinality(BindingsOf(s))

\* an account emitted in the SUBJECTS phase is then a subject of two rendered
\* bindings, one of which lists it twice
C2_Reached ==
  /\ Done
  /\ config.resourceKind \in {"", "serviceaccount"}
  /\ \E s \in Identities :
       /\ Cardinality(BindingsOf(s)) >= 2
       /\ s.kind = "ServiceAccount"
       /\ s.namespace \in DOMAIN permissions.ServiceAccounts
       /\ s.name \in DOMAIN permissions.ServiceAccounts[s.namespace]
       /\ \E r \in BindingsOf(s) : Cardinality(Entries(r, s)) = 2

-----------------------------------------------------------------------------
\* The decision table of the binding inclusion, by filter target.
Condition(r) ==
  LET ns == Str(r.namespace)
      roleNs == Str(r.roleRef.namespace)
      subs == SubjectsOf(r)
  IN CASE config.resourceKind = "" -> NsMatches(ns)
       [] config.resourceKind = "serviceaccount" ->
            \E i \in DOMAIN subs :
              /\ subs[i].kind = "ServiceAccount"
              /\ NsMatches(subs[i].namespace)
              /\ NameMatches(subs[i].name)
       [] config.resourceKind = "role" -> NsMatches(roleNs) /\ NameMatches(r.roleRef.name)
       [] config.resourceKind = "clusterrole" ->
            (roleNs = "" \/ NsMatches(roleNs)) /\ NameMatches(r.roleRef.name)
       [] config.resourceKind = "rolebinding" -> NsMatches(ns) /\ NameMatches(r.name)
       [] config.resourceKind = "clusterrolebinding" -> ns = "" /\ NameMatches(r.name)

-----------------------------------------------------------------------------
\* C4: on a rendered binding, a subject whose name is not excluded has a node
\* in the scope container of its own namespace and an edge to the binding when
\* the target is not identity, or when it is identity and the subject's
\* namespace and name match the filter; otherwise it has no edge to the binding.
C4_SubjectInclusion ==
  Done =>
    \A r \in BindingRecords :
      IsRendered(r) =>
        \A i \in DOMAIN SubjectsOf(r) :
          LET s == SubjectsOf(r)[i]
              included == \/ config.resourceKind # "serviceaccount"
                          \/ NsMatches(s.namespace) /\ NameMatches(s.name)
          IN ~Excluded(s.name) =>
               IF included
                 THEN /\ SubjectKey(s) \in DataNodes
                      /\ EdgeCount(SubjectKey(s), BindingKey(r), "back") >= 1
               ELSE \A e \in DataEdges : ~(e.from = SubjectKey(s) /\ e.to = BindingKey(r))

\* under the identity target a rendered binding has a subject that matches and
\* one, not excluded, that does not
C4_Reached ==
  /\ Done
  /\ config.resourceKind = "serviceaccount"
  /\ \E r \in BindingRecords :
       /\ IsRendered(r)
       /\ \E i, j \in DOMAIN SubjectsOf(r) :
            /\ ~Excluded(SubjectsOf(r)[i].name) /\ ~Excluded(SubjectsOf(r)[j].name)
            /\ NsMatches(SubjectsOf(r)[i].namespace) /\ NameMatches(SubjectsOf(r)[i].name)
            /\ ~NameMatches(SubjectsOf(r)[j].name)

-----------------------------------------------------------------------------
\* what the focus rule says of a node of the given kind, namespace and name
Focus(kind, ns, name) ==
  config.resourceKind = kind /\ NsMatches(ns) /\ NameListed(name)

FetchedAccounts ==
  UNION { {[kind |-> "ServiceAccount", namespace |-> ns, name |-> n] :
             n \in DOMAIN permissions.ServiceAccounts[ns]} :
          ns \in DOMAIN permissions.ServiceAccounts }

\* C5: a node made from the fetched records is highlighted if and only if the
\* filter's target kind is the node's kind, the node's namespace matches the
\* namespace filter and the node's name is listed in the name filter; no node
\* is highlighted when the name filter is empty, and no rule-summary node is.
C5_HighlightIffFocused ==
  Done =>
    /\ \A s \in Identities \cup FetchedAccounts :
         SubjectKey(s) \in DataNodes =>
           (Highlighted(SubjectKey(s)) <=>
              s.kind = "ServiceAccount" /\ Focus("serviceaccount", s.namespace, s.name))
    /\ \A r \in BindingRecords :
         IsRendered(r) =>
           /\ Highlighted(BindingKey(r)) <=>
                Focus(IF Str(r.namespace) = "" THEN "clusterrolebinding" ELSE "rolebinding",
                      Str(r.namespace), r.name)
           /\ Highlighted(RoleKey(r)) <=>
                Focus(IF Str(r.roleRef.namespace) = "" THEN "clusterrole" ELSE "role",
                      Str(r.roleRef.namespace), r.roleRef.name)
           /\ RulesKey(r) \in DataNodes => ~Highlighted(RulesKey(r))
    /\ DataNodes \subseteq
         {SubjectKey(s) : s \in Identities \cup FetchedAccounts}
           \cup {BindingKey(r) : r \in BindingRecords}
           \cup {RoleKey(r) : r \in BindingRecords}
           \cup {RulesKey(r) : r \in BindingRecords}
    /\ config.resourceNames = <<>> => \A k \in DataNodes : ~Highlighted(k)

\* the cluster-role target with a name: the node of the named cluster role is
\* highlighted, and a binding that reaches it is not
C5_Reached ==
  /\ Done
  /\ config.resourceKind = "clusterrole"
  /\ config.resourceNames = <<"x">>
  /\ \E r \in BindingRecords :
       /\ IsRendered(r)
       /\ Highlighted(RoleKey(r))
       /\ ~Highlighted(BindingKey(r))

-----------------------------------------------------------------------------
\* the rule lines of the role of that name in a collection, "" when it has none
RuleText(roles, name) ==
  IF name \in DOMAIN roles /\ roles[name].rules # None
    THEN RuleLines(roles[name].rules[1]) ELSE ""

\* the rule text of a binding: the cluster role's lines, then, for a binding in
\* a namespace, the lines of the role of that namespace
ExpectedRules(r) ==
  RuleText(permissions.ClusterRoles, r.roleRef.name)
    \o (IF Str(r.namespace) # ""
          THEN RuleText(MapGet(permissions.Roles, Str(r.namespace), EmptyMap), r.roleRef.name)
        ELSE "")

RulesLabel(text) ==
  "\"" \o ReplaceAll(ReplaceAll(ReplaceAll(text, "\\", "\\\\"), "\n", "\\l"), "\"", "\\\"")
    \o "\""

RuleNodes == {k \in DataNodes : g.nodes[k].shape = "note"}

-----------------------------------------------------------------------------
\* the namespaces to be shown: those of the fetched identities, bindings and
\* roles without a namespace filter, else the requested ones
NamespacesToShow ==
  IF config.namespaces = <<"">>
    THEN DOMAIN permissions.ServiceAccounts \cup DOMAIN permissions.RoleBindings
           \cup DOMAIN permissions.Roles
  ELSE {config.namespaces[i] : i \in DOMAIN config.namespaces}

SubjectNodesOfGraph == {k \in DataNodes : g.nodes[k].shape = "box"}

\* C7: under the targets none and identity every fetched identity of a
\* namespace to be shown has its node, and no edge when no rendered binding
\* lists it; under the other targets the only identity nodes are those of the
\* included subjects of rendered bindings.
C7_AccountsShown ==
  Done =>
    IF config.resourceKind \in {"", "serviceaccount"}
      THEN \A s \in FetchedAccounts :
             s.namespace \in NamespacesToShow =>
               /\ SubjectKey(s) \in DataNodes
               /\ BindingsOf(s) = {} =>
                    \A e \in DataEdges : e.from # SubjectKey(s) /\ e.to # SubjectKey(s)
    ELSE SubjectNodesOfGraph \subseteq {SubjectKey(s) : s \in {t \in Identities : BindingsOf(t) # {}}}

\* no filter: one fetched account is the subject of a rendered binding, another
\* of the namespace b, where there is neither role nor binding, has a node and
\* no edge
C7_Reached ==
  /\ Done
  /\ config.resourceKind = ""
  /\ config.namespaces = <<"">>
  /\ "b" \notin DOMAIN permissions.RoleBindings \cup DOMAIN permissions.Roles
  /\ \E s, t \in FetchedAccounts :
       /\ BindingsOf(s) # {}
       /\ t.namespace = "b" /\ BindingsOf(t) = {} /\ SubjectKey(t) \in DataNodes

-----------------------------------------------------------------------------
\* the retrievals of a run, in order
ExpectedCalls ==
  [i \in DOMAIN config.namespaces |->
     <<"sa", config.namespaces[i],
       IF config.resourceKind = "serviceaccount" THEN config.resourceNames ELSE <<>> >>]
    \o << <<"roles", "", <<>> >>, <<"rolebindings", "", <<>> >>,
          <<"clusterroles", "", <<>> >>, <<"clusterrolebindings", "", <<>> >> >>

IsPrefix(s, t) == Len(s) <= Len(t) /\ s = SubSeq(t, 1, Len(s))

\* C8: the retrievals are made once each, in the order service accounts,
\* roles, role bindings, cluster roles, cluster role bindings; a graph is
\* printed only when all of them succeeded and the assembly has finished; a
\* retrieval that fails is the last one, and a run that failed, in a retrieval
\* or in the assembly, has ended with a non-zero status and printed no graph.
C8_GraphOnlyAfterSuccess ==
  /\ IsPrefix(calls, ExpectedCalls)
  /\ output # <<>> =>
       /\ calls = ExpectedCalls
       /\ failed = <<>>
       /\ pc = "done" /\ todo = <<>>
       /\ output = <<g>>
       /\ exitStatus = <<0>>
  /\ failed # <<>> =>
       /\ failed = <<calls[Len(calls)]>>
       /\ pc = "exit"
  /\ pc = "exit" =>
       /\ exitStatus # <<>> /\ exitStatus[1] # 0
       /\ output = <<>>
       /\ ~ENABLED Next

\* the retrieval of the cluster roles fails after three that succeeded
C8_Reached ==
  /\ pc = "exit"
  /\ failed = << <<"clusterroles", "", <<>> >> >>
  /\ Len(calls) >= 4
  /\ output = <<>>

-----------------------------------------------------------------------------
\* The graph that genGraph assembles from the role bindings rb (by namespace)
\* and the cluster role bindings crb when every collection is walked in one
\* fixed order, that of SeqOf.
AssembleSubjects(st, ns) ==
  LET s1 == existingOrNewNamespaceSubgraph(st, ns)
      accounts == MapGet(permissions.ServiceAccounts, ns, EmptyMap)
      AddAccount(s, sa) ==
        existingOrNewSubjectNode(s, s1.nsSubgraphs[ns], "ServiceAccount", ns, sa)
  IN Foldl(AddAccount, s1, SeqOf({accounts[n] : n \in DOMAIN accounts}))

Assemble(rb, crb) ==
  LET s0 == [g |-> renderLegend(NewGraph), nsSubgraphs |-> MapPut(EmptyMap, "", Root),
             subjectNodes |-> EmptyMap, saNodes |-> <<>>, panic |-> FALSE]
      shown == IF config.resourceKind \notin {"", "serviceaccount"} THEN <<>>
               ELSE IF config.namespaces = <<"">>
                 THEN SeqOf(DOMAIN permissions.ServiceAccounts \cup DOMAIN rb
                              \cup DOMAIN permissions.Roles)
               ELSE config.namespaces
      merged == MapPut(rb, "", crb)
      AssembleBindings(st, ns) ==
        Foldl(RenderOneBinding, st, SeqOf(lookupBindings(merged[ns])))
  IN Foldl(AssembleBindings, Foldl(AssembleSubjects, s0, shown), SeqOf(DOMAIN merged)).g

\* the fetched role bindings by namespace, as they were before genGraph put
\* the cluster role bindings under the namespace ""
NamespacedBindings ==
  [ns \in DOMAIN permissions.RoleBindings \ {""} |-> permissions.RoleBindings[ns]]

\* C9: whatever the order in which the namespaces, the service accounts and
\* the bindings were walked, the printed graph has the nodes (with scope
\* container and highlight), the edges and the scope containers of the graph
\* assembled in the fixed order.
C9_OrderIndependent ==
  Done =>
    LET fixed == Assemble(NamespacedBindings, permissions.ClusterRoleBindings)
    IN /\ g.nodes = fixed.nodes
       /\ BagToSet(g.edges) = BagToSet(fixed.edges)
       /\ DOMAIN g.subgraphs = DOMAIN fixed.subgraphs

\* a printed graph for which three collections of two or more elements were
\* walked: the namespaces of the role bindings, the bindings of one namespace
\* and the service accounts of one namespace
C9_Reached ==
  /\ Done
  /\ config.resourceKind = ""
  /\ Cardinality(DOMAIN permissions.RoleBindings) >= 2
  /\ \E ns \in DOMAIN permissions.RoleBindings :
       Cardinality(DOMAIN permissions.RoleBindings[ns]) >= 2
  /\ Cardinality(DataNodes) >= 4

-----------------------------------------------------------------------------
Remove(m, k) == [x \in DOMAIN m \ {k} |-> m[x]]

\* the role bindings by namespace without the record r; a namespace is a key
\* only when a binding of it was fetched
NamespacedBindingsWithout(r) ==
  IF r.namespace = Nil THEN NamespacedBindings
  ELSE IF DOMAIN NamespacedBindings[r.namespace] = {r.name}
    THEN Remove(NamespacedBindings, r.namespace)
  ELSE [NamespacedBindings EXCEPT ![r.namespace] = Remove(@, r.name)]

ClusterBindingsWithout(r) ==
  IF r.namespace = Nil THEN Remove(permissions.ClusterRoleBindings, r.name)
  ELSE permissions.ClusterRoleBindings

GraphWithout(r) == Assemble(NamespacedBindingsWithout(r), ClusterBindingsWithout(r))

\* C10 as stated: a binding without subject list leaves nothing in the printed
\* graph, which is the graph of the same records without that binding: no
\* node, no edge and no scope container is owed to it.
C10_NoTrace ==
  Done =>
    \A r \in BindingRecords :
      r.subjects = None =>
        /\ BindingKey(r) \notin DataNodes
        /\ g.nodes = GraphWithout(r).nodes
        /\ g.edges = GraphWithout(r).edges
        /\ DOMAIN g.subgraphs = DOMAIN GraphWithout(r).subgraphs

\* C10 as amended: such a binding has no node and no edge is owed to it; the
\* one scope container that can be owed to it is that of its own namespace,
\* without any node, under the targets none and identity when all namespaces
\* are shown.
C10_NoNodeNoEdge ==
  Done =>
    \A r \in BindingRecords :
      r.subjects = None =>
        /\ BindingKey(r) \notin DataNodes
        /\ g.nodes = GraphWithout(r).nodes
        /\ g.edges = GraphWithout(r).edges
        /\ DOMAIN GraphWithout(r).subgraphs \subseteq DOMAIN g.subgraphs
        /\ \A p \in DOMAIN g.subgraphs \ DOMAIN GraphWithout(r).subgraphs :
             /\ p = <<Str(r.namespace)>>
             /\ config.resourceKind \in {"", "serviceaccount"}
             /\ config.namespaces = <<"">>
             /\ \A k \in DOMAIN g.nodes : k[1] # p

\* a printed graph of records among which a binding without subject list
\* meets the condition of the filter target, beside a binding that is
\* rendered, and the scope container of its namespace holds no node
C10_Reached ==
  /\ Done
  /\ \E r, q \in BindingRecords :
       /\ r.subjects = None
       /\ Condition(r)
       /\ IsRendered(q)
       /\ <<Str(r.namespace)>> \in DOMAIN g.subgraphs
       /\ \A k \in DOMAIN g.nodes : k[1] # <<Str(r.namespace)>>

-----------------------------------------------------------------------------
\* the nodes of the cluster role bindings and of the cluster roles, by the
\* prefix of their id
IsClusterBindingNode(k) == HasPrefix(k[2], "crb-")

IsClusterRoleNode(k) == HasPrefix(k[2], "cr-")

\* C11 as stated: in the assembled graph every cluster role binding node and
\* every cluster role node lies in the cluster scope container, the root
\* graph, also when a namespaced binding references the cluster role.
C11_ClusterNodesInRoot ==
  Done =>
    \A k \in DataNodes :
      (IsClusterBindingNode(k) \/ IsClusterRoleNode(k)) => k[1] = Root

\* C11 as amended: every cluster role binding node lies in the cluster scope
\* container; a cluster role node lies in the scope container of the binding
\* that references it, one node per namespace of such bindings, so it lies in
\* the cluster scope container exactly when that binding is cluster-wide.
C11_ClusterRoleWithItsBinding ==
  Done =>
    /\ \A k \in DataNodes : IsClusterBindingNode(k) => k[1] = Root
    /\ \A k \in DataNodes :
         IsClusterRoleNode(k) =>
           \E r \in BindingRecords :
             /\ IsRendered(r)
             /\ Str(r.roleRef.namespace) = ""
             /\ k = RoleKey(r)
             /\ k[1] = BindingKey(r)[1]
             /\ (k[1] = Root) <=> (Str(r.namespace) = "")
    /\ \A r \in BindingRecords :
         (IsRendered(r) /\ Str(r.roleRef.namespace) = "") =>
           /\ RoleKey(r) \in DataNodes
           /\ \A k \in DataNodes : k[2] = RoleKey(r)[2] => k = RoleKey(r)

\* a printed graph with a cluster role referenced by a rendered namespaced
\* binding and a rendered cluster role binding, while the scope containers of
\* two namespaces are shown
C11_Reached ==
  /\ Done
  /\ \E r, q \in BindingRecords :
       /\ IsRendered(r) /\ Str(r.namespace) # "" /\ Str(r.roleRef.namespace) = ""
       /\ RoleKey(r) \in DataNodes
       /\ IsRendered(q) /\ Str(q.namespace) = "" /\ Str(q.roleRef.namespace) = ""
       /\ RoleKey(q) \in DataNodes
  /\ Cardinality({p \in DOMAIN g.subgraphs : Len(p) = 1 /\ p # Legend}) >= 2

-----------------------------------------------------------------------------
\* the nodes of the service accounts, by the prefix of their id
IsAccountNode(k) == HasPrefix(k[2], "ServiceAccount-")

\* the node k is that of a service account whose name is in the name filter
\* and whose namespace matches the namespace filter
AccountNodeMatches(k) ==
  /\ \E i \in DOMAIN config.resourceNames :
       k[2] = SubjectNodeId("ServiceAccount", config.resourceNames[i])
  /\ \/ config.namespaces = <<"">>
     \/ \E j \in DOMAIN config.namespaces : k[1] = Container(config.namespaces[j])

\* C12: under the identity target with a non-empty name filter, every service
\* account node of the assembled graph, from the SUBJECTS phase or from a
\* subject of a binding, has a name of the name filter and a namespace that
\* matches the namespace filter, for all namespaces and for a namespace list.
C12_AccountNodesMatchFilter ==
  (Done /\ config.resourceKind = "serviceaccount" /\ config.resourceNames # <<>>) =>
    \A k \in DataNodes : IsAccountNode(k) => AccountNodeMatches(k)

====
